---- MODULE Spec2Model ----
(***************************************************************************)
(* Model of the structured-output enforcer of                              *)
(* src/src/generate/constrain/__init__.py: the fence/tag scanner, the       *)
(* transition policy decide_next, the token forcer and the stateful         *)
(* StructuredEnforcer.__call__, driven by a generation loop that calls it   *)
(* once per decoding step and appends the selected token to the history.    *)
(*                                                                          *)
(* Text is a sequence of symbols.  A symbol stands for a piece of text that *)
(* the scanner's tests (line splitting, strip, startswith, substring) treat *)
(* as a unit:                                                               *)
(*   "TO" <thought>   "TC" </thought>   "AO" <action>   "AC" </action>      *)
(*   "NL" line break  "F3" three backticks   "PY" the word python           *)
(*   "SP" a whitespace character   "X" any other visible character          *)
(*   "CR" a carriage return (a line break of its own, or with "NL" after)   *)
(*   "E"  the text of the end-of-sequence token                             *)
(***************************************************************************)
EXTENDS Integers, Sequences, FiniteSets, TLC

VARIABLES
    tokenizer,      \* which tokenizer collaborator the enforcer was built with
    input_ids,      \* the token history the generation loop passes (row 0)
    scores,         \* the score buffer as the last call returned it (row 0)
    state,          \* self.state
    start_pos,      \* self.start_pos; None until the first call
    force_queue,    \* self._force_queue
    token_history,  \* self._token_history
    pc,             \* generation loop: "call" the enforcer next, or "sample"
    forced,         \* token id the last call forced, or None
    iters,          \* iterations of the while loop in the last call
    trail,          \* self.state at entry of the last call, then each value assigned
    entry_queue,    \* self._force_queue at entry of the last call
    origin,         \* per generated token: "forced", or the state in which it was chosen
    resumed,        \* times the caller went on after end-of-sequence was selected
    done_calls,     \* number of calls that assigned State.DONE
    call_batch,     \* input_ids.size(0) and scores.size(0) of the last call
    begun,          \* per call that passed validation: self.state and whether
                    \* self._force_queue was empty at its entry
    last_text,      \* generated_text of the last call that passed validation
    arg_state,      \* argument of a stand-alone decide_next evaluation
    arg_text,       \* argument of a stand-alone scanner / policy evaluation
    arg_scores,     \* score buffer handed to a stand-alone force_token call
    arg_token,      \* token id handed to a stand-alone force_token call
    ret             \* result of the stand-alone evaluation

vars == <<tokenizer, input_ids, scores, state, start_pos, force_queue,
          token_history, pc, forced, iters, trail, entry_queue, origin,
          resumed,
          done_calls, call_batch, begun, last_text,
          arg_state, arg_text, arg_scores, arg_token, ret>>

\* Optional[...]: None, or a value
None == <<>>
Some(v) == <<v>>
The(opt) == opt[1]

(***************************************************************************)
(* Bounds of the model.                                                    *)
(***************************************************************************)
\* tokens the model chooses itself in one run
MaxFree == 5
\* tokens a cooperative model chooses itself in one run
MaxCoop == 8
\* times a caller goes on after end-of-sequence was selected
MaxPost == 2
\* iterations of the while loop of one call that the model follows
LoopFuel == 12

(***************************************************************************)
(* States, in the order of the State enum.                                 *)
(***************************************************************************)
START == "START"
THOUGHT_CONTENT == "THOUGHT_CONTENT"
ACTION_OPEN == "ACTION_OPEN"
ACTION_CONTENT == "ACTION_CONTENT"
CODE_FENCE_START == "CODE_FENCE_START"
CODE_CONTENT == "CODE_CONTENT"
DONE == "DONE"

State == <<START, THOUGHT_CONTENT, ACTION_OPEN, ACTION_CONTENT,
           CODE_FENCE_START, CODE_CONTENT, DONE>>

States == {State[i] : i \in 1..Len(State)}

\* position of a state in the enum (auto() numbers from 1)
Ord(s) == CHOOSE i \in 1..Len(State) : State[i] = s

(***************************************************************************)
(* Literal texts of the source.                                            *)
(***************************************************************************)
CODE_START_LINE == <<"F3", "PY">>
CODE_START == <<"F3", "PY", "NL">>
THOUGHT_OPEN_TEXT == <<"TO">>
ACTION_OPEN_TEXT == <<"NL", "AO">>
FENCE_OPEN_TEXT == <<"NL">> \o CODE_START
DONE_TEXT == <<"NL">>

Symbols == {"TO", "TC", "AO", "AC", "NL", "CR", "F3", "PY", "SP", "X", "E"}

(***************************************************************************)
(* The tokenizer collaborator.  Token ids count from 0; TokenTexts lists   *)
(* what decode yields for each id, in id order.                             *)
(***************************************************************************)
TokenTexts ==
    << <<"NL">>, <<"X">>, <<"TC">>, <<"AC">>, <<"F3">>, <<"PY">>, <<"SP">>,
       <<"TO">>, <<"AO">>, <<>>, <<"E">> >>

Vocab == 0..(Len(TokenTexts) - 1)

TokenText(t) == TokenTexts[t + 1]

\* the token whose text is the single symbol c
SymbolToken(c) == CHOOSE t \in Vocab : TokenText(t) = <<c>>

\* a token of empty text
TokPad == CHOOSE t \in Vocab : TokenText(t) = <<>>

\* tokenizer.eos_token_id
eos_token_id == SymbolToken("E")

\* tokenizer.decode(ids): the concatenation of the tokens' texts
RECURSIVE Decode(_)
Decode(ids) ==
    IF ids = <<>> THEN <<>> ELSE TokenText(Head(ids)) \o Decode(Tail(ids))

\* one token per symbol
UnitEncode(text) == [i \in 1..Len(text) |-> SymbolToken(text[i])]

(* tokenizer.encode(text, add_special_tokens=False) for the tokenizers the  *)
(* model is run with:                                                       *)
(*   "unit"     one token per symbol;                                       *)
(*   "prefixed" a leading token of empty text, then one token per symbol    *)
(*              (a sentencepiece-style encoder: a text of one character     *)
(*              becomes two tokens);                                        *)
(*   "empty"    no token at all.                                            *)
Tokenizers == {"unit", "prefixed", "empty"}

Encode(tk, text) ==
    CASE tk = "unit" -> UnitEncode(text)
      [] tk = "prefixed" -> <<TokPad>> \o UnitEncode(text)
      [] tk = "empty" -> <<>>

\* tokenizers for which decode(encode(text)) = text
Faithful == {"unit", "prefixed"}

(***************************************************************************)
(* 2) Detection / parsing (read-only)                                      *)
(***************************************************************************)
\* str.splitlines(keepends=False) on a non-empty text: cur is the line being
\* read; "\n", "\r" and "\r\n" each end a line
RECURSIVE SplitFrom(_, _)
SplitFrom(text, cur) ==
    IF text = <<>> THEN (IF cur = <<>> THEN <<>> ELSE <<cur>>)
    ELSE IF Head(text) = "NL" THEN <<cur>> \o SplitFrom(Tail(text), <<>>)
    ELSE IF Head(text) = "CR"
         THEN <<cur>> \o SplitFrom(IF Len(text) > 1 /\ text[2] = "NL"
                                   THEN Tail(Tail(text)) ELSE Tail(text), <<>>)
    ELSE SplitFrom(Tail(text), Append(cur, Head(text)))

_split_lines(text) == IF text # <<>> THEN SplitFrom(text, <<>>) ELSE <<>>

\* str.strip(): drop leading and trailing whitespace
RECURSIVE LStrip(_)
LStrip(line) ==
    IF line # <<>> /\ Head(line) = "SP" THEN LStrip(Tail(line)) ELSE line

RECURSIVE RStrip(_)
RStrip(line) ==
    IF line # <<>> /\ line[Len(line)] = "SP"
    THEN RStrip(SubSeq(line, 1, Len(line) - 1)) ELSE line

Strip(line) == RStrip(LStrip(line))

\* "\n".join(lines)
RECURSIVE JoinLines(_)
JoinLines(lines) ==
    IF lines = <<>> THEN <<>>
    ELSE IF Len(lines) = 1 THEN lines[1]
    ELSE lines[1] \o <<"NL">> \o JoinLines(Tail(lines))

\* index of the first line that is the opening fence, 0 when there is none
FirstFenceLine(lines) ==
    IF \E i \in 1..Len(lines) : Strip(lines[i]) = CODE_START_LINE
    THEN CHOOSE i \in 1..Len(lines) :
            /\ Strip(lines[i]) = CODE_START_LINE
            /\ \A j \in 1..(i - 1) : Strip(lines[j]) # CODE_START_LINE
    ELSE 0

\* a mutant of prefix_before_code_fence: the text is not cut at the fence
prefix_before_code_fence_Whole(text) == text

\* a mutant of prefix_before_code_fence: the fence line is kept
prefix_before_code_fence_Through(text) ==
    LET lines == _split_lines(text)
        i == FirstFenceLine(lines)
    IN IF i # 0 THEN JoinLines(SubSeq(lines, 1, i)) ELSE text

prefix_before_code_fence(text) ==
    LET lines == _split_lines(text)
        i == FirstFenceLine(lines)
    IN IF i # 0 THEN JoinLines(SubSeq(lines, 1, i - 1)) ELSE text

\* a mutant of IsClosingFence: any line that starts with three backticks
IsClosingFence_Prefix(line) == line # <<>> /\ Head(line) = "F3"

\* line.startswith("```") and not line[3:].strip()
IsClosingFence(line) ==
    /\ line # <<>>
    /\ Head(line) = "F3"
    /\ Strip(Tail(line)) = <<>>

\* any(l.strip() for l in lines)
AnyContent(lines) == \E i \in 1..Len(lines) : Strip(lines[i]) # <<>>

\* a mutant of code_block_status: the last closing fence is taken, not the first
code_block_status_LastFence(text) ==
    IF text = <<>> THEN <<FALSE, FALSE>>
    ELSE
      LET lines_all == _split_lines(text)
          start_idx == FirstFenceLine(lines_all)
      IN IF start_idx = 0 THEN <<FALSE, FALSE>>
         ELSE
           LET lines == SubSeq(lines_all, start_idx + 1, Len(lines_all))
           IN IF \E i \in 1..Len(lines) : IsClosingFence(lines[i])
              THEN LET i == CHOOSE k \in 1..Len(lines) :
                              /\ IsClosingFence(lines[k])
                              /\ \A j \in (k + 1)..Len(lines) : ~IsClosingFence(lines[j])
                   IN <<AnyContent(SubSeq(lines, 1, i - 1)), TRUE>>
              ELSE <<AnyContent(lines), FALSE>>

code_block_status(text) ==
    IF text = <<>> THEN <<FALSE, FALSE>>
    ELSE
      LET lines_all == _split_lines(text)
          start_idx == FirstFenceLine(lines_all)
      IN IF start_idx = 0 THEN <<FALSE, FALSE>>
         ELSE
           LET lines == SubSeq(lines_all, start_idx + 1, Len(lines_all))
           IN IF \E i \in 1..Len(lines) : IsClosingFence(lines[i])
              THEN LET i == CHOOSE k \in 1..Len(lines) :
                              /\ IsClosingFence(lines[k])
                              /\ \A j \in 1..(k - 1) : ~IsClosingFence(lines[j])
                   IN <<AnyContent(SubSeq(lines, 1, i - 1)), TRUE>>
              ELSE <<AnyContent(lines), FALSE>>

\* the substring test  marker in text
Contains(text, c) == \E i \in 1..Len(text) : text[i] = c

(***************************************************************************)
(* 3) Policy (state decisions)                                             *)
(***************************************************************************)
Transition(new_state, force_text) ==
    [new_state |-> new_state, force_text |-> force_text]

\* a Transition without force_text carries the empty text here: the caller
\* tests `if tr.force_text`, which treats None and "" alike
NoText == <<>>

\* a mutant of decide_next: the opening action marker is not forced
decide_next_NoActionText(st, generated_text) ==
    LET safe_text == prefix_before_code_fence(generated_text)
    IN IF st = START THEN Transition(THOUGHT_CONTENT, THOUGHT_OPEN_TEXT)
       ELSE IF st = THOUGHT_CONTENT /\ Contains(safe_text, "TC")
            THEN Transition(ACTION_OPEN, NoText)
       ELSE IF st = ACTION_OPEN THEN Transition(ACTION_CONTENT, NoText)
       ELSE IF st = ACTION_CONTENT /\ Contains(safe_text, "AC")
            THEN Transition(CODE_FENCE_START, FENCE_OPEN_TEXT)
       ELSE IF st = CODE_FENCE_START THEN Transition(CODE_CONTENT, NoText)
       ELSE IF st = CODE_CONTENT
               /\ code_block_status(generated_text) = <<TRUE, TRUE>>
            THEN Transition(DONE, DONE_TEXT)
       ELSE Transition(st, NoText)

\* a mutant of decide_next: any closing fence ends the code block
decide_next_AnyFence(st, generated_text) ==
    LET safe_text == prefix_before_code_fence(generated_text)
    IN IF st = START THEN Transition(THOUGHT_CONTENT, THOUGHT_OPEN_TEXT)
       ELSE IF st = THOUGHT_CONTENT /\ Contains(safe_text, "TC")
            THEN Transition(ACTION_OPEN, ACTION_OPEN_TEXT)
       ELSE IF st = ACTION_OPEN THEN Transition(ACTION_CONTENT, NoText)
       ELSE IF st = ACTION_CONTENT /\ Contains(safe_text, "AC")
            THEN Transition(CODE_FENCE_START, FENCE_OPEN_TEXT)
       ELSE IF st = CODE_FENCE_START THEN Transition(CODE_CONTENT, NoText)
       ELSE IF st = CODE_CONTENT /\ code_block_status(generated_text)[2]
            THEN Transition(DONE, DONE_TEXT)
       ELSE Transition(st, NoText)

\* a mutant of decide_next: a finished sequence starts over
decide_next_Restart(st, generated_text) ==
    LET safe_text == prefix_before_code_fence(generated_text)
    IN IF st = START THEN Transition(THOUGHT_CONTENT, THOUGHT_OPEN_TEXT)
       ELSE IF st = THOUGHT_CONTENT /\ Contains(safe_text, "TC")
            THEN Transition(ACTION_OPEN, ACTION_OPEN_TEXT)
       ELSE IF st = ACTION_OPEN THEN Transition(ACTION_CONTENT, NoText)
       ELSE IF st = ACTION_CONTENT /\ Contains(safe_text, "AC")
            THEN Transition(CODE_FENCE_START, FENCE_OPEN_TEXT)
       ELSE IF st = CODE_FENCE_START THEN Transition(CODE_CONTENT, NoText)
       ELSE IF st = CODE_CONTENT
               /\ code_block_status(generated_text) = <<TRUE, TRUE>>
            THEN Transition(DONE, DONE_TEXT)
       ELSE IF st = DONE THEN Transition(START, NoText)
       ELSE Transition(st, NoText)

\* a mutant of decide_next: CODE_FENCE_START goes back to ACTION_OPEN
decide_next_FenceToAction(st, generated_text) ==
    LET safe_text == prefix_before_code_fence(generated_text)
    IN IF st = START THEN Transition(THOUGHT_CONTENT, THOUGHT_OPEN_TEXT)
       ELSE IF st = THOUGHT_CONTENT /\ Contains(safe_text, "TC")
            THEN Transition(ACTION_OPEN, ACTION_OPEN_TEXT)
       ELSE IF st = ACTION_OPEN THEN Transition(ACTION_CONTENT, NoText)
       ELSE IF st = ACTION_CONTENT /\ Contains(safe_text, "AC")
            THEN Transition(CODE_FENCE_START, FENCE_OPEN_TEXT)
       ELSE IF st = CODE_FENCE_START THEN Transition(ACTION_OPEN, NoText)
       ELSE IF st = CODE_CONTENT
               /\ code_block_status(generated_text) = <<TRUE, TRUE>>
            THEN Transition(DONE, DONE_TEXT)
       ELSE Transition(st, NoText)

\* a mutant of decide_next: ACTION_OPEN is not left without a marker
decide_next_OpenWaits(st, generated_text) ==
    LET safe_text == prefix_before_code_fence(generated_text)
    IN IF st = START THEN Transition(THOUGHT_CONTENT, THOUGHT_OPEN_TEXT)
       ELSE IF st = THOUGHT_CONTENT /\ Contains(safe_text, "TC")
            THEN Transition(ACTION_OPEN, ACTION_OPEN_TEXT)
       ELSE IF st \in {ACTION_OPEN, ACTION_CONTENT} /\ Contains(safe_text, "AC")
            THEN Transition(CODE_FENCE_START, FENCE_OPEN_TEXT)
       ELSE IF st = CODE_FENCE_START THEN Transition(CODE_CONTENT, NoText)
       ELSE IF st = CODE_CONTENT
               /\ code_block_status(generated_text) = <<TRUE, TRUE>>
            THEN Transition(DONE, DONE_TEXT)
       ELSE Transition(st, NoText)

decide_next(st, generated_text) ==
    LET safe_text == prefix_before_code_fence(generated_text)
    IN IF st = START THEN Transition(THOUGHT_CONTENT, THOUGHT_OPEN_TEXT)
       ELSE IF st = THOUGHT_CONTENT /\ Contains(safe_text, "TC")
            THEN Transition(ACTION_OPEN, ACTION_OPEN_TEXT)
       ELSE IF st = ACTION_OPEN THEN Transition(ACTION_CONTENT, NoText)
       ELSE IF st = ACTION_CONTENT /\ Contains(safe_text, "AC")
            THEN Transition(CODE_FENCE_START, FENCE_OPEN_TEXT)
       ELSE IF st = CODE_FENCE_START THEN Transition(CODE_CONTENT, NoText)
       ELSE IF st = CODE_CONTENT
               /\ code_block_status(generated_text) = <<TRUE, TRUE>>
            THEN Transition(DONE, DONE_TEXT)
       ELSE Transition(st, NoText)

(***************************************************************************)
(* 1) Logits forcing (mechanics)                                           *)
(* A score buffer is a tensor: its shape and, for a [batch, vocab] tensor,  *)
(* its rows, each a function from token ids to score values.                *)
(***************************************************************************)
NegInf == "-inf"
Zero == "0.0"

Tensor2(rows) == [shape |-> <<Len(rows), Cardinality(Vocab)>>, rows |-> rows]

\* the logits the model hands in at a step: end-of-sequence scores highest
Logits == Tensor2(<< [t \in Vocab |-> IF t = eos_token_id THEN "hi" ELSE "lo"] >>)

\* scores[0, id] = value
SetEntry(sc, id, value) ==
    [sc EXCEPT !.rows = [sc.rows EXCEPT ![1] = [sc.rows[1] EXCEPT ![id] = value]]]

\* the result of a function that may raise ValueError
Ok(value) == [ok |-> TRUE, value |-> value]
Raise(value) == [ok |-> FALSE, value |-> value]

\* a mutant of force_token: the fill with -inf is left out
force_token_NoFill(sc, token_id) ==
    IF Len(sc.shape) # 2 THEN Raise(sc)
    ELSE IF sc.shape[1] # 1 THEN Raise(sc)
    ELSE IF ~(0 <= token_id /\ token_id < sc.shape[2]) THEN Raise(sc)
    ELSE Ok(SetEntry(sc, token_id, Zero))

force_token(sc, token_id) ==
    IF Len(sc.shape) # 2 THEN Raise(sc)
    ELSE IF sc.shape[1] # 1 THEN Raise(sc)
    ELSE IF ~(0 <= token_id /\ token_id < sc.shape[2]) THEN Raise(sc)
    ELSE Ok(SetEntry([sc EXCEPT !.rows = [r \in 1..Len(sc.rows) |->
                                            [t \in Vocab |-> NegInf]]],
                     token_id, Zero))

\* force_token of logit_utils.py: no test of the batch size; every row of the
\* buffer is filled and gets 0.0 at token_id
logit_utils_force_token(sc, token_id) ==
    IF Len(sc.shape) # 2 THEN Raise(sc)
    ELSE IF ~(0 <= token_id /\ token_id < sc.shape[2]) THEN Raise(sc)
    ELSE Ok([sc EXCEPT !.rows = [r \in 1..Len(sc.rows) |->
                                   [t \in Vocab |->
                                      IF t = token_id THEN Zero ELSE NegInf]]])

(***************************************************************************)
(* 4) Orchestration: StructuredEnforcer                                    *)
(***************************************************************************)
\* a mutant of SuppressEos: the default is left out
SuppressEos_Skipped(sc) == sc

\* scores[0, self.eos_token_id] = float("-inf")
SuppressEos(sc) == SetEntry(sc, eos_token_id, NegInf)

\* a mutant of _pop_forced: the queue is popped at its back
_pop_forced_Last(q) ==
    IF q = <<>> THEN [tok |-> None, queue |-> q]
    ELSE [tok |-> Some(q[Len(q)]), queue |-> SubSeq(q, 1, Len(q) - 1)]

\* a mutant of _pop_forced: a popped token id 0 is taken for None
_pop_forced_ZeroIsNone(q) ==
    IF q = <<>> \/ Head(q) = 0 THEN [tok |-> None, queue |-> q]
    ELSE [tok |-> Some(Head(q)), queue |-> Tail(q)]

\* self._force_queue.pop(0), or None when the queue is empty: the token and
\* the queue that is left
_pop_forced(q) ==
    IF q = <<>> THEN [tok |-> None, queue |-> q]
    ELSE [tok |-> Some(Head(q)), queue |-> Tail(q)]

\* _enqueue_force_text: the new value of self._force_queue
_enqueue_force_text(tk, text) == Encode(tk, text)

\* a mutant of RunLoop: the policy is consulted before the queue is popped
RunLoop_PolicyFirst(tk, st, q, sc, generated_text, n, tr) ==
    LET sc1 == SuppressEos(sc)
        t == decide_next(st, generated_text)
        q2 == IF t.new_state # st /\ t.force_text # NoText
              THEN _enqueue_force_text(tk, t.force_text) ELSE q
        tr2 == IF t.new_state # st THEN Append(tr, t.new_state) ELSE tr
        res(ok, qq, b, f) ==
            [ok |-> ok, state |-> t.new_state, force_queue |-> qq, scores |-> b,
             forced |-> f, iters |-> n, trail |-> tr2, hung |-> FALSE]
    IN IF q2 # <<>>
       THEN LET f == force_token(sc1, Head(q2))
            IN res(f.ok, Tail(q2), f.value, Some(Head(q2)))
       ELSE IF t.new_state = DONE
       THEN LET f == force_token(sc1, eos_token_id)
            IN res(f.ok, q2, f.value, Some(eos_token_id))
       ELSE res(TRUE, q2, sc1, None)

\* a mutant of RunLoop: a call returns after a transition, and the forced
\* text waits in the queue for the next call
RunLoop_ReturnOnChange(tk, st, q, sc, generated_text, n, tr) ==
    LET sc1 == SuppressEos(sc)
        res(ok, s, qq, b, f, t) ==
            [ok |-> ok, state |-> s, force_queue |-> qq, scores |-> b,
             forced |-> f, iters |-> n, trail |-> t, hung |-> FALSE]
    IN IF _pop_forced(q).tok # None
       THEN LET tok == The(_pop_forced(q).tok)
                f == force_token(sc1, tok)
            IN res(f.ok, st, _pop_forced(q).queue, f.value, Some(tok), tr)
       ELSE LET t == decide_next(st, generated_text)
            IN IF t.new_state # st
               THEN res(TRUE, t.new_state,
                        IF t.force_text # NoText
                        THEN _enqueue_force_text(tk, t.force_text) ELSE q,
                        sc1, None, Append(tr, t.new_state))
               ELSE IF st = DONE
               THEN LET f == force_token(sc1, eos_token_id)
                    IN res(f.ok, st, q, f.value, Some(eos_token_id), tr)
               ELSE res(TRUE, st, q, sc1, None, tr)

(* The while loop of __call__, from the iteration numbered n on.  st and q  *)
(* are self.state and self._force_queue, sc the score buffer, tr the states *)
(* self.state has had during the call.  The result is what the call leaves  *)
(* behind; hung marks a loop that was still running after LoopFuel          *)
(* iterations.                                                              *)
RECURSIVE RunLoop(_, _, _, _, _, _, _)
RunLoop(tk, st, q, sc, generated_text, n, tr) ==
    LET sc1 == SuppressEos(sc)
        res(ok, s, qq, b, f, hung) ==
            [ok |-> ok, state |-> s, force_queue |-> qq, scores |-> b,
             forced |-> f, iters |-> n, trail |-> tr, hung |-> hung]
    IN IF n > LoopFuel THEN res(TRUE, st, q, sc, None, TRUE)
       ELSE IF _pop_forced(q).tok # None
       THEN LET tok == The(_pop_forced(q).tok)
                f == force_token(sc1, tok)
            IN res(f.ok, st, _pop_forced(q).queue, f.value, Some(tok), FALSE)
       ELSE LET t == decide_next(st, generated_text)
            IN IF t.new_state # st
               THEN RunLoop(tk, t.new_state,
                            IF t.force_text # NoText
                            THEN _enqueue_force_text(tk, t.force_text) ELSE q,
                            sc1, generated_text, n + 1, Append(tr, t.new_state))
               ELSE IF st = DONE
               THEN LET f == force_token(sc1, eos_token_id)
                    IN res(f.ok, st, q, f.value, Some(eos_token_id), FALSE)
               ELSE res(TRUE, st, q, sc1, None, FALSE)

\* a mutant of GeneratedTokens: the offset is left out
GeneratedTokens_FromZero(ids, pos) == ids

\* input_ids[0, self.start_pos:].tolist()
GeneratedTokens(ids, pos) == SubSeq(ids, pos + 1, Len(ids))

\* tokens the model chooses among when the buffer leaves it free
ModelVocab ==
    {SymbolToken(c) : c \in {"X", "NL", "TC", "AC", "F3", "PY"}}

\* tokens a caller that goes on after end-of-sequence puts into the history
PostVocab == {SymbolToken(c) : c \in {"X", "NL"}}

\* prompts: the token history at the first call
Prompts == {<<SymbolToken("TC"), SymbolToken("AC")>>}

\* number of tokens of the run that the model chose itself
FreeCount(org) ==
    Cardinality({i \in 1..Len(org) : org[i] \notin {"forced", "post"}})

Init ==
    /\ tokenizer \in Tokenizers
    /\ input_ids \in Prompts
    /\ scores = Logits
    /\ state = START
    /\ start_pos = None
    /\ force_queue = <<>>
    /\ token_history = <<>>
    /\ pc = "call"
    /\ forced = None
    /\ iters = 0
    /\ trail = <<START>>
    /\ entry_queue = <<>>
    /\ origin = <<>>
    /\ resumed = 0
    /\ done_calls = 0
    /\ call_batch = <<1, 1>>
    /\ begun = <<>>
    /\ last_text = <<>>
    /\ arg_state = START
    /\ arg_text = <<>>
    /\ arg_scores = Logits
    /\ arg_token = eos_token_id
    /\ ret = None

\* largest batch size of the history and of the buffer of a call
MaxCallBatch == 2

\* input_ids.size(0) and scores.size(0) of a call
BatchPairs == (1..MaxCallBatch) \X (1..MaxCallBatch)

\* a mutant of BatchOk: only the buffer's batch size is tested
BatchOk_ScoresOnly(ids_batch, scores_batch) == scores_batch = 1

\* not (input_ids.size(0) != 1 or scores.size(0) != 1)
BatchOk(ids_batch, scores_batch) == ~(ids_batch # 1 \/ scores_batch # 1)

(* StructuredEnforcer.__call__(input_ids, scores) with a history and a      *)
(* buffer that pass the test of the batch size; the enforcer reads row 0.   *)
Call ==
    /\ pc = "call"
    /\ \E b \in BatchPairs : BatchOk(b[1], b[2]) /\ call_batch' = b
    /\ begun' = Append(begun, [state |-> state, idle |-> force_queue = <<>>])
    /\ LET pos == IF start_pos = None THEN Len(input_ids) ELSE The(start_pos)
           generated_tokens == GeneratedTokens(input_ids, pos)
           new_token == generated_tokens[Len(generated_tokens)]
           generated_text ==
               IF generated_tokens # <<>> THEN Decode(generated_tokens) ELSE <<>>
           r == RunLoop(tokenizer, state, force_queue, Logits, generated_text,
                        1, <<state>>)
       IN /\ start_pos' = Some(pos)
          /\ token_history' =
                IF generated_tokens # <<>>
                THEN Append(token_history, <<new_token, TokenText(new_token)>>)
                ELSE token_history
          /\ last_text' = generated_text
          /\ state' = r.state
          /\ force_queue' = r.force_queue
          /\ scores' = r.scores
          /\ forced' = r.forced
          /\ iters' = r.iters
          /\ trail' = r.trail
          /\ entry_queue' = force_queue
          /\ done_calls' =
                IF \E i \in 2..Len(r.trail) : r.trail[i] = DONE
                THEN done_calls + 1 ELSE done_calls
          /\ pc' = IF r.hung THEN "hung" ELSE IF r.ok THEN "sample" ELSE "failed"
    /\ UNCHANGED <<tokenizer, input_ids, origin, resumed,
                   arg_state, arg_text, arg_scores, arg_token, ret>>

(* StructuredEnforcer.__call__(input_ids, scores) with a history or a       *)
(* buffer of another batch size: ValueError is raised at the entry, and the *)
(* generation request ends.                                                 *)
CallRejected ==
    /\ pc = "call"
    /\ \E b \in BatchPairs : ~BatchOk(b[1], b[2]) /\ call_batch' = b
    /\ pc' = "rejected"
    /\ UNCHANGED <<tokenizer, input_ids, scores, state, start_pos, force_queue,
                   token_history, forced, iters, trail, entry_queue, origin,
                   resumed, done_calls, begun, last_text,
                   arg_state, arg_text, arg_scores, arg_token, ret>>

(* The generation loop selects the next token from the returned buffer and  *)
(* appends it to the history; it stops when it selects end-of-sequence.     *)
Sample ==
    /\ pc = "sample"
    /\ \E t \in Vocab :
          /\ scores.rows[1][t] # NegInf
          /\ forced = None =>
                /\ t \in ModelVocab
                /\ FreeCount(origin) < MaxFree
          /\ input_ids' = Append(input_ids, t)
          /\ origin' = Append(origin, IF forced = None THEN state ELSE "forced")
          /\ pc' = IF t = eos_token_id THEN "stopped" ELSE "call"
    /\ UNCHANGED <<tokenizer, scores, state, start_pos, force_queue, token_history,
                   forced, iters, trail, entry_queue, resumed, done_calls,
                   call_batch, begun, last_text,
                   arg_state, arg_text, arg_scores, arg_token, ret>>

(* A caller that goes on after end-of-sequence: it may put one more token   *)
(* of its own into the history, and calls the enforcer again.               *)
Resume ==
    /\ pc = "stopped"
    /\ resumed < MaxPost
    /\ \E extra \in {<<>>} \cup {<<t>> : t \in PostVocab} :
          /\ input_ids' = input_ids \o extra
          /\ origin' = origin \o [i \in 1..Len(extra) |-> "post"]
    /\ resumed' = resumed + 1
    /\ pc' = "call"
    /\ UNCHANGED <<tokenizer, scores, state, start_pos, force_queue, token_history,
                   forced, iters, trail, entry_queue, done_calls,
                   call_batch, begun, last_text,
                   arg_state, arg_text, arg_scores, arg_token, ret>>

Next == Call \/ Sample \/ Resume

Spec == Init /\ [][Next]_vars

(***************************************************************************)
(* The generation loop with a cooperative model: it writes content free of  *)
(* markers, closes the thought and the action block, and closes the code    *)
(* block with a bare fence on a line of its own once the code has a         *)
(* non-blank line.                                                          *)
(***************************************************************************)
ContentVocab == {SymbolToken(c) : c \in {"X", "NL"}}

\* the tokens of ids whose origin is org, in order
RECURSIVE Pick(_, _, _)
Pick(ids, org, s) ==
    IF ids = <<>> THEN <<>>
    ELSE (IF Head(org) = s THEN <<Head(ids)>> ELSE <<>>)
         \o Pick(Tail(ids), Tail(org), s)

CoopChoices(ids, org, st) ==
    CASE st = THOUGHT_CONTENT -> ContentVocab \cup {SymbolToken("TC")}
      [] st = ACTION_CONTENT -> ContentVocab \cup {SymbolToken("AC")}
      [] st = CODE_CONTENT ->
            ContentVocab \cup
            (IF /\ ids # <<>> /\ ids[Len(ids)] = SymbolToken("NL")
                /\ org[Len(org)] = CODE_CONTENT
                /\ Contains(Pick(ids, org, CODE_CONTENT), SymbolToken("X"))
             THEN {SymbolToken("F3")} ELSE {})
      [] OTHER -> {}

CoopSample ==
    /\ pc = "sample"
    /\ \E t \in Vocab :
          /\ scores.rows[1][t] # NegInf
          /\ forced = None =>
                /\ t \in CoopChoices(GeneratedTokens(input_ids, The(start_pos)),
                                     origin, state)
                /\ FreeCount(origin) < MaxCoop
          /\ input_ids' = Append(input_ids, t)
          /\ origin' = Append(origin, IF forced = None THEN state ELSE "forced")
          /\ pc' = IF t = eos_token_id THEN "stopped" ELSE "call"
    /\ UNCHANGED <<tokenizer, scores, state, start_pos, force_queue, token_history,
                   forced, iters, trail, entry_queue, resumed, done_calls,
                   call_batch, begun, last_text,
                   arg_state, arg_text, arg_scores, arg_token, ret>>

NextCoop == Call \/ CoopSample

SpecCoop == Init /\ [][NextCoop]_vars

(***************************************************************************)
(* The generation loop with a cooperative model and a caller that may hand  *)
(* in a batch of histories or of score rows at any step.                    *)
(***************************************************************************)
NextBatch == Call \/ CoopSample \/ CallRejected

SpecBatch == Init /\ [][NextBatch]_vars

(***************************************************************************)
(* The generation loop without a step budget of its own and a cooperative   *)
(* model that is never kept from closing a block: the closing thought       *)
(* marker, the closing action marker and, in the code block, what is        *)
(* missing of a non-blank line, its line break and the bare closing fence   *)
(* can always be chosen; only the other content the model writes is         *)
(* bounded.  The loop stops when end-of-sequence is selected.               *)
(***************************************************************************)
\* tokens of free content a cooperative model writes before it only closes
MaxLive == 3

\* the token that brings the block of state st nearer to its end
ClosingChoices(ids, org, st) ==
    CASE st = THOUGHT_CONTENT -> {SymbolToken("TC")}
      [] st = ACTION_CONTENT -> {SymbolToken("AC")}
      [] st = CODE_CONTENT ->
            IF ~Contains(Pick(ids, org, CODE_CONTENT), SymbolToken("X"))
            THEN {SymbolToken("X")}
            ELSE IF ids[Len(ids)] = SymbolToken("NL") /\ org[Len(org)] = CODE_CONTENT
            THEN {SymbolToken("F3")}
            ELSE {SymbolToken("NL")}
      [] OTHER -> {}

LiveSample ==
    /\ pc = "sample"
    /\ \E t \in Vocab :
          /\ scores.rows[1][t] # NegInf
          /\ forced = None =>
                LET ids == GeneratedTokens(input_ids, The(start_pos))
                IN \/ t \in ClosingChoices(ids, origin, state)
                   \/ /\ t \in CoopChoices(ids, origin, state)
                      /\ FreeCount(origin) < MaxLive
          /\ input_ids' = Append(input_ids, t)
          /\ origin' = Append(origin, IF forced = None THEN state ELSE "forced")
          /\ pc' = IF t = eos_token_id THEN "stopped" ELSE "call"
    /\ UNCHANGED <<tokenizer, scores, state, start_pos, force_queue, token_history,
                   forced, iters, trail, entry_queue, resumed, done_calls,
                   call_batch, begun, last_text,
                   arg_state, arg_text, arg_scores, arg_token, ret>>

NextLive == Call \/ LiveSample

\* the enforcer is built with a tokenizer that encodes every forced text
InitLive == Init /\ tokenizer \in Faithful

\* the loop goes on: it does not wait for ever before it calls the enforcer
\* (Call is enabled exactly when pc = "call", and is then the only step),
\* and it goes on selecting a token from the buffer a call returned
SpecLive ==
    InitLive /\ [][NextLive]_vars /\ []<>(pc # "call") /\ WF_vars(LiveSample)

(***************************************************************************)
(* The generation loop with a model that closes the thought and the action  *)
(* block at once and then writes code of its own choice: other characters,  *)
(* line breaks and fences.                                                  *)
(***************************************************************************)
\* tokens the model writes in the code block
MaxCode == 5

CodeVocab == {SymbolToken(c) : c \in {"X", "NL", "F3"}}

CodeChoices(org, st) ==
    CASE st = THOUGHT_CONTENT -> {SymbolToken("TC")}
      [] st = ACTION_CONTENT -> {SymbolToken("AC")}
      [] st = CODE_CONTENT ->
            IF Cardinality({i \in 1..Len(org) : org[i] = CODE_CONTENT}) < MaxCode
            THEN CodeVocab ELSE {}
      [] OTHER -> {}

CodeSample ==
    /\ pc = "sample"
    /\ \E t \in Vocab :
          /\ scores.rows[1][t] # NegInf
          /\ forced = None => t \in CodeChoices(origin, state)
          /\ input_ids' = Append(input_ids, t)
          /\ origin' = Append(origin, IF forced = None THEN state ELSE "forced")
          /\ pc' = IF t = eos_token_id THEN "stopped" ELSE "call"
    /\ UNCHANGED <<tokenizer, scores, state, start_pos, force_queue, token_history,
                   forced, iters, trail, entry_queue, resumed, done_calls,
                   call_batch, begun, last_text,
                   arg_state, arg_text, arg_scores, arg_token, ret>>

NextCode == Call \/ CodeSample

SpecCode == Init /\ [][NextCode]_vars

(***************************************************************************)
(* force_token called on its own: a buffer of any rank and batch size and   *)
(* a token id in or out of range are handed to the force_token of           *)
(* __init__.py or to the one of logit_utils.py.                             *)
(***************************************************************************)
\* largest batch size of a buffer handed to force_token
MaxBatch == 2
\* largest rank of a buffer handed to force_token
MaxRank == 3

ScoreValues == {NegInf, "lo", Zero, "hi"}

\* rows of previous contents: uniform ones, and ones that single out an id
UniformRows == {[t \in Vocab |-> v] : v \in ScoreValues}
PeakRows ==
    {[t \in Vocab |-> IF t = k THEN "hi" ELSE "lo"] : k \in Vocab}
    \cup {[t \in Vocab |-> IF t = k THEN NegInf ELSE Zero] : k \in Vocab}

\* tuple(scores.shape) of a tensor of rank k with b rows over the vocabulary
Shape(k, b) ==
    [i \in 1..k |-> IF i = k THEN Cardinality(Vocab)
                    ELSE IF i = k - 1 THEN b ELSE 1]

Buffers ==
    {[shape |-> Shape(k, 1), rows |-> <<r>>] :
        k \in 1..MaxRank, r \in UniformRows \cup PeakRows}
    \cup UNION {{[shape |-> Shape(k, b), rows |-> rows] :
                    k \in 2..MaxRank, rows \in [1..b -> UniformRows]} :
                b \in (0..MaxBatch) \ {1}}

TokenIds == (0 - 1)..Cardinality(Vocab)

\* an enforcer that is constructed and not called
Idle ==
    /\ tokenizer = "unit"
    /\ input_ids = <<>>
    /\ scores = Logits
    /\ state = START
    /\ start_pos = None
    /\ force_queue = <<>>
    /\ token_history = <<>>
    /\ forced = None
    /\ iters = 0
    /\ trail = <<START>>
    /\ entry_queue = <<>>
    /\ origin = <<>>
    /\ resumed = 0
    /\ done_calls = 0
    /\ call_batch = <<1, 1>>
    /\ begun = <<>>
    /\ last_text = <<>>

InitForce ==
    /\ Idle
    /\ pc = "force"
    /\ arg_state = START
    /\ arg_text = <<>>
    /\ arg_scores \in Buffers
    /\ arg_token \in TokenIds
    /\ ret = None

\* force_token(scores, token_id) of src/generate/constrain/__init__.py
ForceCall ==
    /\ pc = "force"
    /\ ret' = Some([fn |-> "constrain", out |-> force_token(arg_scores, arg_token)])
    /\ pc' = "forced"
    /\ UNCHANGED <<tokenizer, input_ids, scores, state, start_pos, force_queue,
                   token_history, forced, iters, trail, entry_queue, origin,
                   resumed, done_calls, call_batch, begun, last_text,
                   arg_state, arg_text, arg_scores, arg_token>>

\* force_token(scores, token_id) of src/generate/constrain/logit_utils.py
UtilsForceCall ==
    /\ pc = "force"
    /\ ret' = Some([fn |-> "logit_utils",
                    out |-> logit_utils_force_token(arg_scores, arg_token)])
    /\ pc' = "forced"
    /\ UNCHANGED <<tokenizer, input_ids, scores, state, start_pos, force_queue,
                   token_history, forced, iters, trail, entry_queue, origin,
                   resumed, done_calls, call_batch, begun, last_text,
                   arg_state, arg_text, arg_scores, arg_token>>

NextForce == ForceCall \/ UtilsForceCall

SpecForce == InitForce /\ [][NextForce]_vars

(***************************************************************************)
(* The scanner called on its own: code_block_status and                     *)
(* prefix_before_code_fence are handed a text of line breaks, fences, the   *)
(* word python, whitespace and other characters.                            *)
(***************************************************************************)
\* longest text handed to the scanner
MaxText == 6

ScanSymbols == {"NL", "F3", "PY", "SP", "X"}

\* all texts of at most n symbols of S
TextsOver(S, n) == UNION {[1..k -> S] : k \in 0..n}

ScanTexts ==
    TextsOver(ScanSymbols, MaxText)
    \cup TextsOver(ScanSymbols \cup {"CR"}, MaxText - 1)

InitScan ==
    /\ Idle
    /\ pc = "scan"
    /\ arg_state = START
    /\ arg_text \in ScanTexts
    /\ arg_scores = Logits
    /\ arg_token = eos_token_id
    /\ ret = None

StatusCall ==
    /\ pc = "scan"
    /\ ret' = Some(code_block_status(arg_text))
    /\ pc' = "status"
    /\ UNCHANGED <<tokenizer, input_ids, scores, state, start_pos, force_queue,
                   token_history, forced, iters, trail, entry_queue, origin,
                   resumed, done_calls, call_batch, begun, last_text,
                   arg_state, arg_text, arg_scores, arg_token>>

PrefixCall ==
    /\ pc = "scan"
    /\ ret' = Some(prefix_before_code_fence(arg_text))
    /\ pc' = "prefix"
    /\ UNCHANGED <<tokenizer, input_ids, scores, state, start_pos, force_queue,
                   token_history, forced, iters, trail, entry_queue, origin,
                   resumed, done_calls, call_batch, begun, last_text,
                   arg_state, arg_text, arg_scores, arg_token>>

NextScan == StatusCall \/ PrefixCall

SpecScan == InitScan /\ [][NextScan]_vars

(***************************************************************************)
(* What the claims speak about.                                            *)
(***************************************************************************)
\* the tokens generated since start_pos, and their text
Generated == IF start_pos = None THEN <<>> ELSE GeneratedTokens(input_ids, The(start_pos))
GenText == Decode(Generated)

\* per symbol of GenText, the origin of the token it belongs to
RECURSIVE SymbolOrigin(_, _)
SymbolOrigin(ids, org) ==
    IF ids = <<>> THEN <<>>
    ELSE [i \in 1..Len(TokenText(Head(ids))) |-> Head(org)]
         \o SymbolOrigin(Tail(ids), Tail(org))

GenOrigin == SymbolOrigin(Generated, origin)

\* a call has just returned
Returned == pc = "sample"

\* the call that just returned forced end-of-sequence, in a run in which the
\* loop took every forced token and stopped at end-of-sequence
EosForced ==
    /\ Returned
    /\ forced = Some(eos_token_id)
    /\ resumed = 0
    /\ tokenizer \in Faithful

\* text[from..] starts with piece
StartsAt(text, from, piece) ==
    /\ from >= 1
    /\ from + Len(piece) - 1 <= Len(text)
    /\ SubSeq(text, from, from + Len(piece) - 1) = piece

\* text[f] opens a line that is a bare closing fence
ClosingFenceAt(text, f) ==
    /\ f > 1 /\ f <= Len(text)
    /\ text[f - 1] = "NL"
    /\ text[f] = "F3"
    /\ \E e \in f..Len(text) :
          /\ \A k \in (f + 1)..e : text[k] = "SP"
          /\ e = Len(text) \/ text[e + 1] = "NL"

(* The grammar of a finished transcript: <thought> T </thought> newline     *)
(* <action> A </action> newline, the opening fence line, code with a        *)
(* non-blank line, a bare closing fence line; c, a, o and f are where the   *)
(* closing thought marker, the closing action marker, the newline before    *)
(* the opening fence and the closing fence stand.                           *)
WellFormed(text) ==
    \E c, a, o, f \in 1..Len(text) :
        /\ text[1] = "TO"
        /\ c > 1 /\ text[c] = "TC"
        /\ StartsAt(text, c + 1, ACTION_OPEN_TEXT)
        /\ a > c + Len(ACTION_OPEN_TEXT) /\ text[a] = "AC"
        /\ o > a /\ StartsAt(text, o, FENCE_OPEN_TEXT)
        /\ f > o + Len(FENCE_OPEN_TEXT)
        /\ ClosingFenceAt(text, f)
        /\ \E j \in (o + Len(FENCE_OPEN_TEXT))..(f - 2) : text[j] \notin {"NL", "SP"}

\* C1: whenever the enforcer forces end-of-sequence, the text generated since
\* start_pos has the structure thought block, action block whose closing marker
\* follows its opening marker, opening fence line, code with a non-blank line,
\* bare closing fence line.
C1_EosOnlyAfterWellFormed == EosForced => WellFormed(GenText)

\* index in the text of the first symbol of line k
RECURSIVE LineStart(_, _)
LineStart(lines, k) ==
    IF k <= 1 THEN 1 ELSE LineStart(lines, k - 1) + Len(lines[k - 1]) + 1

\* index of the first occurrence of symbol c in text (text contains c)
FirstIndex(text, c) ==
    CHOOSE i \in 1..Len(text) : text[i] = c /\ \A j \in 1..(i - 1) : text[j] # c

\* every symbol of text[from..to] comes from a token of origin org
AllFrom(from, to, org) == \A i \in from..to : GenOrigin[i] = org

\* index of the first bare closing fence line after line k, 0 when there is none
FirstClosingLine(lines, k) ==
    IF \E m \in (k + 1)..Len(lines) : IsClosingFence(lines[m])
    THEN CHOOSE m \in (k + 1)..Len(lines) :
            /\ IsClosingFence(lines[m])
            /\ \A j \in (k + 1)..(m - 1) : ~IsClosingFence(lines[j])
    ELSE 0

\* the transcript opens with a forced opening thought tag
ThoughtTagForced == GenText # <<>> /\ GenText[1] = "TO" /\ AllFrom(1, 1, "forced")

\* the first closing thought marker is followed by a forced newline + opening
\* action tag
ActionTagForced ==
    /\ Contains(GenText, "TC")
    /\ LET c == FirstIndex(GenText, "TC")
       IN /\ StartsAt(GenText, c + 1, ACTION_OPEN_TEXT)
          /\ AllFrom(c + 1, c + Len(ACTION_OPEN_TEXT), "forced")

\* the text has an opening fence line, and it consists of forced tokens
OpeningFenceForced ==
    LET lines == _split_lines(GenText)
        k == FirstFenceLine(lines)
    IN /\ k # 0
       /\ AllFrom(LineStart(lines, k), LineStart(lines, k) + Len(lines[k]) - 1, "forced")

\* the text has a closing fence line, and it consists of tokens of origin org
ClosingFenceFrom(org) ==
    LET lines == _split_lines(GenText)
        k == FirstFenceLine(lines)
        m == FirstClosingLine(lines, k)
    IN /\ k # 0 /\ m # 0
       /\ AllFrom(LineStart(lines, m), LineStart(lines, m) + Len(lines[m]) - 1, org)

\* C2 as stated: in a transcript that ends with the forced end-of-sequence, the
\* opening thought tag, the opening action tag, the opening fence and the closing
\* fence all consist of forced tokens.
C2_AllMarkersForced ==
    EosForced =>
        /\ ThoughtTagForced
        /\ ActionTagForced
        /\ OpeningFenceForced
        /\ ClosingFenceFrom("forced")

\* C2 amended: in a transcript that ends with the forced end-of-sequence, the
\* opening thought tag, the opening action tag and the opening fence consist of
\* forced tokens; the closing fence consists of tokens the model chose in
\* CODE_CONTENT.
C2_OpeningMarkersForced ==
    EosForced =>
        /\ ThoughtTagForced
        /\ ActionTagForced
        /\ OpeningFenceForced
        /\ ClosingFenceFrom(CODE_CONTENT)

\* a finished transcript whose thought and action blocks both have content
C2_Witness ==
    /\ EosForced
    /\ \E i \in 1..Len(origin) : origin[i] = ACTION_CONTENT

\* the buffer in which token id t is forced
ForcedRow(t) == [u \in Vocab |-> IF u = t THEN Zero ELSE NegInf]

\* C3: at the return of every call the end-of-sequence score is negative
\* infinity, except when the state is DONE and the call forced end-of-sequence;
\* so end-of-sequence is not selectable before DONE nor while a queue is drained.
C3_EosSuppressed ==
    Returned =>
        /\ scores.rows[1][eos_token_id] = NegInf
           \/ (state = DONE /\ forced = Some(eos_token_id))
        /\ (state # DONE \/ force_queue # <<>> \/ entry_queue # <<>>)
              => scores.rows[1][eos_token_id] = NegInf

\* the model is left free in CODE_CONTENT, with logits that favour end-of-sequence
C3_Witness ==
    /\ Returned /\ forced = None /\ state = CODE_CONTENT
    /\ Logits.rows[1][eos_token_id] = "hi"
    /\ scores.rows[1][SymbolToken("X")] = "lo"

\* C4: the state only moves forward in the order of the enum: every assignment
\* in a call goes to the immediate successor, no call lowers the state, and DONE
\* is never left.
C4_ForwardOnly ==
    [][ /\ pc = "call" => (trail'[1] = state /\ trail'[Len(trail')] = state')
        /\ \A i \in 1..(Len(trail') - 1) : Ord(trail'[i + 1]) = Ord(trail'[i]) + 1
        /\ Ord(state') >= Ord(state)
        /\ state = DONE => state' = DONE ]_vars

\* a call on a finished sequence, made after the caller went on: the state stays
\* DONE
C4_Witness == Returned /\ state = DONE /\ trail = <<DONE>> /\ resumed >= 1

\* C5 as stated: once a call has moved the state to DONE, every later call
\* forces end-of-sequence.
C5_LaterCallsForceEos ==
    (Returned /\ trail[1] = DONE) => forced = Some(eos_token_id)

\* C5 amended: once a call has moved the state to DONE, every later call first
\* forces what is left in the force queue, front first, and every call that finds
\* the queue empty forces end-of-sequence (score 0, every other score negative
\* infinity), whatever the history holds by then.
C5_DoneDrainsThenForcesEos ==
    (Returned /\ trail[1] = DONE) =>
        /\ state = DONE
        /\ entry_queue # <<>> =>
              /\ forced = Some(Head(entry_queue))
              /\ force_queue = Tail(entry_queue)
        /\ entry_queue = <<>> =>
              /\ forced = Some(eos_token_id)
              /\ scores.rows[1] = ForcedRow(eos_token_id)

\* end-of-sequence forced again after the caller put text of its own behind it
C5_Witness ==
    /\ Returned /\ trail[1] = DONE /\ entry_queue = <<>>
    /\ \E i \in 1..Len(origin) : origin[i] = "post"

\* the last call assigned DONE
MovedToDone == \E i \in 2..Len(trail) : trail[i] = DONE

\* the text has an opening fence line and a bare closing fence line after it with
\* only blank lines between the two
EmptyClosedBlock(text) ==
    LET lines == _split_lines(text)
    IN \E k, m \in 1..Len(lines) :
          /\ k < m
          /\ Strip(lines[k]) = CODE_START_LINE
          /\ \A j \in 1..(k - 1) : Strip(lines[j]) # CODE_START_LINE
          /\ Head(lines[m] \o <<"X">>) = "F3"
          /\ \A i \in 2..Len(lines[m]) : lines[m][i] = "SP"
          /\ \A j \in (k + 1)..(m - 1) : \A i \in 1..Len(lines[j]) : lines[j][i] = "SP"

\* C6: a call whose text has a closing fence with no non-blank line between the
\* opening fence and it never moves the state to DONE; DONE is entered only in a
\* call where code_block_status of the text is (true, true).
C6_DoneNeedsContent ==
    /\ (Returned /\ EmptyClosedBlock(GenText)) => ~MovedToDone
    /\ (Returned /\ MovedToDone) => code_block_status(GenText) = <<TRUE, TRUE>>
    /\ (state = DONE) => ~EmptyClosedBlock(GenText)

\* a call in CODE_CONTENT that saw the block closed while empty and stayed
C6_Witness ==
    /\ Returned /\ state = CODE_CONTENT /\ trail = <<CODE_CONTENT>>
    /\ EmptyClosedBlock(GenText)

\* seq without its last n elements
DropLast(seq, n) == SubSeq(seq, 1, Len(seq) - n)

\* the text the model chose while the state was s
ChosenIn(s) == Decode(Pick(Generated, origin, s))

\* the content of the three blocks in a run of the cooperative model: what the
\* model chose before it closed the block
ThoughtBody == DropLast(ChosenIn(THOUGHT_CONTENT), 1)
ActionBody == DropLast(ChosenIn(ACTION_CONTENT), 1)
CodeBody == DropLast(ChosenIn(CODE_CONTENT), 2)

ExpectedTranscript ==
    <<"TO">> \o ThoughtBody \o <<"TC", "NL", "AO">> \o ActionBody
    \o <<"AC", "NL", "F3", "PY", "NL">> \o CodeBody \o <<"NL", "F3", "NL", "E">>

\* C7: with a loop that takes every forced token and a model that writes T and
\* the closing thought marker, A and the closing action marker, C, a newline and
\* a bare closing fence, the finished transcript is exactly <thought> T </thought>
\* newline <action> A </action> newline, opening fence line, C, newline, closing
\* fence, newline, end-of-sequence; with one token per symbol no other token
\* occurs.
C7_ExactTranscript ==
    (pc = "stopped" /\ tokenizer \in Faithful) =>
        /\ GenText = ExpectedTranscript
        /\ tokenizer = "unit" => Generated = UnitEncode(ExpectedTranscript)

\* the finished transcript with x as thought, action and code content
C7_Witness ==
    /\ pc = "stopped" /\ tokenizer = "unit"
    /\ ThoughtBody = <<"X">> /\ ActionBody = <<"X">> /\ CodeBody = <<"X">>

\* number of fence markers the model chose itself
FreeFences ==
    Cardinality({i \in 1..Len(origin) :
                    origin[i] # "forced" /\ Generated[i] = SymbolToken("F3")})

\* the text holds an opening fence line, a non-blank line after it and a bare
\* closing fence line after that one
ClosedAfterContent(text) ==
    LET lines == _split_lines(text)
    IN \E k, c, m \in 1..Len(lines) :
          /\ k < c /\ c < m
          /\ Strip(lines[k]) = CODE_START_LINE
          /\ \E i \in 1..Len(lines[c]) : lines[c][i] # "SP"
          /\ Head(lines[m] \o <<"X">>) = "F3"
          /\ \A i \in 2..Len(lines[m]) : lines[m][i] = "SP"

\* C8: when the model writes no fence marker other than the one closing fence,
\* the transition to DONE happens exactly once: in the first call whose text
\* holds the closing fence after a non-blank code line, in no earlier call (the
\* state is DONE at a return exactly when the text holds it) and in no later one.
C8_DoneExactlyOnce ==
    FreeFences <= 1 =>
        /\ done_calls <= 1
        /\ state = DONE => done_calls = 1
        /\ Returned => (state = DONE <=> ClosedAfterContent(GenText))
        /\ (Returned /\ MovedToDone) => trail = <<CODE_CONTENT, DONE>>

\* a later call on the finished sequence: the transition is not taken again
C8_Witness ==
    /\ Returned /\ state = DONE /\ ~MovedToDone /\ resumed >= 1
    /\ FreeFences = 1 /\ done_calls = 1

\* index in the text where the first opening fence line starts; past the end
\* when there is none
FenceStart(text) ==
    LET lines == _split_lines(text)
        k == FirstFenceLine(lines)
    IN IF k = 0 THEN Len(text) + 1 ELSE LineStart(lines, k)

\* symbol c stands in the text before the first opening fence line
BeforeFence(text, c) == \E i \in 1..(FenceStart(text) - 1) : text[i] = c

\* the last call assigned state s
MovedTo(s) == \E i \in 2..Len(trail) : trail[i] = s

\* C9: THOUGHT_CONTENT -> ACTION_OPEN and ACTION_CONTENT -> CODE_FENCE_START are
\* taken only in a call whose text has the closing thought (action) marker before
\* the first opening fence line; a marker that stands only at or after that line
\* triggers nothing.
C9_MarkersBeforeFenceOnly ==
    Returned =>
        /\ MovedTo(ACTION_OPEN) => BeforeFence(GenText, "TC")
        /\ MovedTo(CODE_FENCE_START) => BeforeFence(GenText, "AC")

\* the closing thought marker stands after a fence line the model wrote, and the
\* call left the state at THOUGHT_CONTENT
C9_Witness ==
    /\ Returned /\ state = THOUGHT_CONTENT /\ trail = <<THOUGHT_CONTENT>>
    /\ Contains(GenText, "TC") /\ ~BeforeFence(GenText, "TC")
    /\ FenceStart(GenText) <= Len(GenText)
    /\ tokenizer \in Faithful

\* C10: every call returns, after at most 10 iterations of its loop, for every
\* text and every tokenizer, the one that encodes a forced text as no token
\* included.
C10_LoopBounded ==
    /\ pc \notin {"hung", "failed"}
    /\ iters <= 10

\* the longest call: four transitions and a last look, nothing being forced
C10_Witness ==
    /\ Returned /\ tokenizer = "empty" /\ iters = 5
    /\ trail = <<THOUGHT_CONTENT, ACTION_OPEN, ACTION_CONTENT, CODE_FENCE_START,
                 CODE_CONTENT>>

(***************************************************************************)
(* Claims about force_token on its own (SpecForce).                         *)
(***************************************************************************)
\* the order of score values: -inf below every logit; "lo" stands for a
\* negative logit and "hi" for a positive one
ScoreRank(v) ==
    CASE v = NegInf -> 0 [] v = "lo" -> 1 [] v = Zero -> 2 [] v = "hi" -> 3

SingleRow(sc) == Len(sc.shape) = 2 /\ sc.shape[1] = 1
InRange(sc, token_id) ==
    0 <= token_id /\ token_id < sc.shape[Len(sc.shape)]

\* the stand-alone force_token call has returned or raised
ForceDone == pc = "forced"
ForceOut == The(ret).out

\* C11: for every single-row buffer and every id in range, either
\* force_token returns the buffer with 0.0 at id and -inf everywhere else,
\* whatever it held before, so that the maximum is at id and only at id.
C11_ForceSingleRow ==
    (ForceDone /\ SingleRow(arg_scores) /\ InRange(arg_scores, arg_token)) =>
        /\ ForceOut.ok
        /\ ForceOut.value.shape = arg_scores.shape
        /\ Len(ForceOut.value.rows) = 1
        /\ \A t \in Vocab :
              ForceOut.value.rows[1][t] = IF t = arg_token THEN Zero ELSE NegInf
        /\ \A t \in Vocab \ {arg_token} :
              ScoreRank(ForceOut.value.rows[1][t])
                  < ScoreRank(ForceOut.value.rows[1][arg_token])

\* the enforcer's force_token has forced an id on a buffer whose previous
\* maximum was at another id
C11_Witness ==
    /\ ForceDone /\ The(ret).fn = "constrain"
    /\ SingleRow(arg_scores) /\ InRange(arg_scores, arg_token)
    /\ \E k \in Vocab \ {arg_token} : arg_scores.rows[1][k] = "hi"
    /\ ForceOut.ok
    /\ ForceOut.value.rows[1][arg_token] = Zero

\* C13: force_token fails with the validation error when the buffer is not
\* a two-dimensional single-row buffer or the id is out of range, and then
\* no entry of the buffer has been modified.
C13_ForceFailsUnmodified ==
    (ForceDone /\ ~(SingleRow(arg_scores) /\ InRange(arg_scores, arg_token))) =>
        /\ ~ForceOut.ok
        /\ ForceOut.value = arg_scores

(***************************************************************************)
(* Claims about the scanner on its own (SpecScan).  The lines of a text are *)
(* told by the positions of their first symbols.                            *)
(***************************************************************************)
LineBreaks == {"NL", "CR"}

\* position a is where a line of text begins
LineBeginsAt(text, a) ==
    /\ a \in 1..Len(text)
    /\ \/ a = 1
       \/ text[a - 1] = "NL"
       \/ text[a - 1] = "CR" /\ text[a] # "NL"

LineBegins(text) == {a \in 1..Len(text) : LineBeginsAt(text, a)}

\* position of the last symbol of the line that begins at a (a - 1: empty line)
LineEndsAt(text, a) ==
    LET brk == {p \in a..Len(text) : text[p] \in LineBreaks}
    IN IF brk = {} THEN Len(text)
       ELSE (CHOOSE p \in brk : \A q \in brk : p <= q) - 1

\* the line that begins at a is the opening fence, whitespace around it aside
OpeningFenceLineAt(text, a) ==
    LET b == LineEndsAt(text, a)
    IN \E p \in a..(b - 1) :
          /\ text[p] = "F3" /\ text[p + 1] = "PY"
          /\ \A q \in (a..b) \ {p, p + 1} : text[q] = "SP"

\* the line that begins at a is three backticks followed only by whitespace
BareClosingFenceAt(text, a) ==
    LET b == LineEndsAt(text, a)
    IN /\ a <= b
       /\ text[a] = "F3"
       /\ \A q \in (a + 1)..b : text[q] = "SP"

NonBlankAt(text, a) == \E q \in a..LineEndsAt(text, a) : text[q] # "SP"

Least(S) == CHOOSE p \in S : \A q \in S : p <= q

OpeningFenceLines(text) ==
    {a \in LineBegins(text) : OpeningFenceLineAt(text, a)}

\* the bare closing fences after the first opening fence line
ClosingFencesAfter(text) ==
    {a \in LineBegins(text) :
        a > Least(OpeningFenceLines(text)) /\ BareClosingFenceAt(text, a)}

\* C14: code_block_status returns (False, False) when no line is the
\* opening fence after trimming; otherwise should_end tells whether some
\* line after the first opening fence line is a bare closing fence, and
\* has_content whether a non-blank line lies between the opening fence line
\* and the first such closing fence, or anywhere after the opening fence
\* line when there is no closing fence.
C14_CodeBlockStatus ==
    pc = "status" =>
        LET text == arg_text
            has_content == The(ret)[1]
            should_end == The(ret)[2]
        IN IF OpeningFenceLines(text) = {}
           THEN ~has_content /\ ~should_end
           ELSE LET open == Least(OpeningFenceLines(text))
                    closings == ClosingFencesAfter(text)
                IN /\ should_end <=> closings # {}
                   /\ has_content <=>
                         \E a \in LineBegins(text) :
                            /\ a > open
                            /\ closings # {} => a < Least(closings)
                            /\ NonBlankAt(text, a)

\* a text whose code block has a non-blank line only after its first bare
\* closing fence
C14_Witness ==
    /\ pc = "status"
    /\ arg_text = <<"F3", "PY", "NL", "F3", "NL", "X">>
    /\ The(ret) = <<FALSE, TRUE>>

RECURSIVE WithNewlines(_)
\* text with each of its line breaks written as one "\n"
WithNewlines(text) ==
    IF text = <<>> THEN <<>>
    ELSE IF Head(text) = "CR"
         THEN <<"NL">> \o WithNewlines(IF Len(text) > 1 /\ text[2] = "NL"
                                       THEN Tail(Tail(text)) ELSE Tail(text))
    ELSE <<Head(text)>> \o WithNewlines(Tail(text))

\* position of the last symbol before the line break that ends at a - 1
BeforeBreak(text, a) ==
    IF a >= 3 /\ text[a - 1] = "NL" /\ text[a - 2] = "CR" THEN a - 3 ELSE a - 2

\* C15: prefix_before_code_fence returns the lines before the first line
\* that is the opening fence after trimming, joined by newlines and without
\* the line break that ends the last of them; with no such line it returns
\* the whole text unchanged.
C15_PrefixBeforeFence ==
    pc = "prefix" =>
        IF OpeningFenceLines(arg_text) = {}
        THEN The(ret) = arg_text
        ELSE LET open == Least(OpeningFenceLines(arg_text))
             IN The(ret) =
                  WithNewlines(SubSeq(arg_text, 1, BeforeBreak(arg_text, open)))

\* a line ended by "\r\n" before the opening fence line
C15_Witness ==
    /\ pc = "prefix"
    /\ arg_text = <<"X", "CR", "NL", "F3", "PY">>
    /\ The(ret) = <<"X">>

(***************************************************************************)
(* Claims about the validation at the entry of a call (SpecBatch).          *)
(***************************************************************************)
\* C12: a call whose token history or score buffer has a batch dimension
\* other than 1 fails with the validation error, and state, start_pos, the
\* force queue and the debug history are what they were before the call.
C12_BadBatchRejected ==
    [][(pc = "call" /\ (call_batch'[1] # 1 \/ call_batch'[2] # 1)) =>
          /\ pc' = "rejected"
          /\ UNCHANGED <<state, start_pos, force_queue, token_history>>]_vars

\* a call with a batch of two histories was rejected in the middle of a
\* run, while forced tokens were still queued
C12_Witness ==
    /\ pc = "rejected"
    /\ call_batch = <<2, 1>>
    /\ start_pos # None
    /\ force_queue # <<>>
    /\ token_history # <<>>

(***************************************************************************)
(* Claims about the force queue and the loop of a call (Spec).              *)
(***************************************************************************)
\* the forced text that goes with the entry into state s
EntryText(s) ==
    CASE s = THOUGHT_CONTENT -> THOUGHT_OPEN_TEXT
      [] s = ACTION_OPEN -> ACTION_OPEN_TEXT
      [] s = CODE_FENCE_START -> FENCE_OPEN_TEXT
      [] s = DONE -> DONE_TEXT
      [] OTHER -> NoText

\* the last call forced a token of a queued text (not the end-of-sequence
\* token that every call in DONE with an empty queue forces)
ForcedFromQueue ==
    Returned /\ forced # None /\ ~(entry_queue = <<>> /\ Len(trail) = 1)

\* C16: a call that starts with a non-empty queue forces the front token id,
\* removes that one element and returns, with no transition; and the ids
\* of an enqueued text are forced call after call in their encoded order:
\* when the k-th of them is forced, the k - 1 tokens before it in the
\* history are the first k - 1 of the encoding, all forced, and the queue
\* holds the rest.
C16_QueueFrontToBack ==
    /\ (Returned /\ entry_queue # <<>>) =>
          /\ forced = Some(Head(entry_queue))
          /\ force_queue = Tail(entry_queue)
          /\ scores.rows[1] = ForcedRow(Head(entry_queue))
          /\ trail = <<state>>
    /\ ForcedFromQueue =>
          LET enc == Encode(tokenizer, EntryText(state))
              k == Len(enc) - Len(force_queue)
              n == Len(Generated)
          IN /\ 1 <= k
             /\ force_queue = SubSeq(enc, k + 1, Len(enc))
             /\ forced = Some(enc[k])
             /\ n >= k - 1
             /\ SubSeq(Generated, n - k + 2, n) = SubSeq(enc, 1, k - 1)
             /\ \A i \in (n - k + 2)..n : origin[i] = "forced"

\* the last but one token of the newline and opening code fence is being
\* forced, under the tokenizer that puts a token of its own in front
C16_Witness ==
    /\ Returned
    /\ tokenizer = "prefixed"
    /\ state = CODE_FENCE_START
    /\ Len(entry_queue) = 2
    /\ forced = Some(Head(entry_queue))
    /\ Len(force_queue) = 1

\* C17: a call in which the policy changes the state and proposes a forced
\* text that encodes to at least one token forces the first token of that
\* text before it returns: the first call of a sequence forces the first
\* token of the opening thought marker, and the calls in which the policy
\* finds the closing thought marker, the closing action marker, the closing
\* fence after content force the first token of newline and opening action
\* marker, of newline and opening code fence, of the trailing newline.
C17_FirstTokenSameCall ==
    Returned =>
        /\ \A i \in 2..Len(trail) :
              LET enc == Encode(tokenizer, EntryText(trail[i]))
              IN (EntryText(trail[i]) # NoText /\ enc # <<>>) =>
                    /\ forced = Some(Head(enc))
                    /\ scores.rows[1] = ForcedRow(Head(enc))
                    /\ force_queue = Tail(enc)
                    /\ state = trail[i]
        /\ (Len(begun) = 1 /\ Encode(tokenizer, THOUGHT_OPEN_TEXT) # <<>>) =>
              /\ trail = <<START, THOUGHT_CONTENT>>
              /\ forced = Some(Head(Encode(tokenizer, THOUGHT_OPEN_TEXT)))

\* the call that found the closing fence after content went on to DONE and
\* forced the trailing newline at once
C17_Witness ==
    /\ Returned
    /\ trail = <<CODE_CONTENT, DONE>>
    /\ Encode(tokenizer, DONE_TEXT) # <<>>
    /\ forced = Some(Head(Encode(tokenizer, DONE_TEXT)))
    /\ origin # <<>> /\ origin[Len(origin)] = CODE_CONTENT

\* every entry of the returned buffer is the logit the model handed in,
\* except the end-of-sequence entry, which is -inf
FreeBuffer ==
    /\ scores.shape = Logits.shape
    /\ \A t \in Vocab :
          scores.rows[1][t] =
              IF t = eos_token_id THEN NegInf ELSE Logits.rows[1][t]

\* C18 as stated: a call that ends with an empty force queue, no state
\* change in its last iteration and a state other than DONE returns the
\* buffer with every entry unchanged except end-of-sequence at -inf, and
\* its last iteration leaves the state and the queue as they were.  (The
\* last iteration of a call that returns never changes the state.)
C18_EmptyQueueAtEndFree ==
    (Returned /\ force_queue = <<>> /\ state # DONE) =>
        /\ FreeBuffer
        /\ entry_queue = <<>>

\* the last iteration of the last call found the force queue empty: the
\* call began with an empty queue and enqueued no token
LastIterationQueueEmpty ==
    /\ entry_queue = <<>>
    /\ \A i \in 2..Len(trail) :
          \/ EntryText(trail[i]) = NoText
          \/ Encode(tokenizer, EntryText(trail[i])) = <<>>

\* C18, amended: a call whose last iteration finds the force queue empty
\* and makes no state change, in a state other than DONE, forces nothing
\* and returns the buffer with every entry unchanged except end-of-sequence
\* at -inf; the state and the empty queue are as that iteration found them.
C18_FreeReturnBuffer ==
    (Returned /\ LastIterationQueueEmpty /\ state # DONE) =>
        /\ forced = None
        /\ FreeBuffer
        /\ force_queue = <<>>
        /\ state = trail[Len(trail)]

\* a free return in the code block, and the model's logits favour
\* end-of-sequence
C18_Witness ==
    /\ Returned
    /\ state = CODE_CONTENT
    /\ trail = <<CODE_CONTENT>>
    /\ entry_queue = <<>>
    /\ forced = None
    /\ Logits.rows[1][eos_token_id] = "hi"
    /\ scores.rows[1][eos_token_id] = NegInf

\* C19: ACTION_CONTENT -> CODE_FENCE_START is taken only after the model
\* has produced a closing action marker behind the forced opening action
\* marker, in the action content; a closing action marker that stands only
\* in the thought content does not cause it.
C19_FenceAfterActionClose ==
    (Returned /\ tokenizer \in Faithful /\ MovedTo(CODE_FENCE_START)) =>
        /\ ActionTagForced
        /\ LET ao == FirstIndex(GenText, "TC") + Len(ACTION_OPEN_TEXT)
           IN \E a \in (ao + 1)..Len(GenText) :
                 /\ GenText[a] = "AC"
                 /\ GenOrigin[a] = ACTION_CONTENT

(***************************************************************************)
(* Claims about the states in which calls begin (Spec).                     *)
(***************************************************************************)
\* the calls of the run that began in state s
BegunIn(s) == {i \in 1..Len(begun) : begun[i].state = s}

\* those of them that began with an empty force queue
BegunIdleIn(s) == {i \in BegunIn(s) : begun[i].idle}

\* C20 as stated: no run has two calls that begin in the same one of START,
\* THOUGHT_CONTENT, ACTION_OPEN, ACTION_CONTENT, CODE_FENCE_START.
C20_OnlyCodeContentTwice ==
    \A s \in {START, THOUGHT_CONTENT, ACTION_OPEN, ACTION_CONTENT,
              CODE_FENCE_START} :
        Cardinality(BegunIn(s)) <= 1

\* C20, amended: START is the state at the start of the first call and of
\* no other.  ACTION_OPEN and CODE_FENCE_START are the state at the start of
\* the calls that pop what is left of their forced text, fewer than the
\* text has tokens, and of at most one call with an empty queue, which
\* leaves the state before it returns.  THOUGHT_CONTENT, ACTION_CONTENT and
\* CODE_CONTENT are the state at the start of any number of calls.
C20_StartOnceOpenOnceIdle ==
    /\ \A i \in 1..Len(begun) : begun[i].state = START <=> i = 1
    /\ \A s \in {ACTION_OPEN, CODE_FENCE_START} :
          /\ Cardinality(BegunIdleIn(s)) <= 1
          /\ \/ BegunIn(s) \ BegunIdleIn(s) = {}
             \/ Cardinality(BegunIn(s) \ BegunIdleIn(s))
                   < Len(Encode(tokenizer, EntryText(s)))
          /\ (Returned /\ trail[1] = s /\ entry_queue = <<>>) => state # s

\* a run with two calls that began in THOUGHT_CONTENT and two that began in
\* ACTION_CONTENT with an empty queue, and one in CODE_FENCE_START
C20_Witness ==
    /\ Cardinality(BegunIdleIn(THOUGHT_CONTENT)) >= 2
    /\ Cardinality(BegunIdleIn(ACTION_CONTENT)) >= 2
    /\ Cardinality(BegunIdleIn(CODE_FENCE_START)) = 1

(***************************************************************************)
(* Claims about the start offset (Spec).                                    *)
(***************************************************************************)
\* C22: start_pos is unset in a fresh context; the first call sets it to
\* the length of the token history it is given, and every later call
\* leaves it as it is, however long the history has become; the text the
\* policy is given is the decoding of the history from start_pos on, and
\* is empty in the first call.
C22_StartOffsetFixed ==
    /\ start_pos = None
    /\ [][IF pc = "call" /\ pc' # "rejected"
          THEN /\ start_pos = None =>
                     /\ start_pos' = Some(Len(input_ids))
                     /\ last_text' = <<>>
               /\ start_pos # None => start_pos' = start_pos
               /\ last_text' =
                     Decode(SubSeq(input_ids, The(start_pos') + 1, Len(input_ids)))
          ELSE start_pos' = start_pos /\ last_text' = last_text]_vars

\* a later call, on a history that has grown by four tokens since the first
\* call, with the start offset still at the length of the prompt
C22_Witness ==
    /\ Returned
    /\ Len(begun) >= 5
    /\ start_pos = Some(2)
    /\ Len(input_ids) = 6
    /\ Len(last_text) >= 3

(***************************************************************************)
(* Claims about what is enqueued and what is forced (Spec).                 *)
(***************************************************************************)
\* the encodings of the forced texts of the states entered so far, in the
\* order of the states
RECURSIVE EnqueuedUpTo(_)
EnqueuedUpTo(k) ==
    IF k <= 1 THEN <<>>
    ELSE EnqueuedUpTo(k - 1)
         \o (IF EntryText(State[k]) = NoText THEN <<>>
             ELSE Encode(tokenizer, EntryText(State[k])))

\* ids without the end-of-sequence id
RECURSIVE WithoutEos(_)
WithoutEos(ids) ==
    IF ids = <<>> THEN <<>>
    ELSE (IF Head(ids) = eos_token_id THEN <<>> ELSE <<Head(ids)>>)
         \o WithoutEos(Tail(ids))

\* the forced tokens of the run: those selected, and the one the last call
\* forced when it is not selected yet
ForcedSoFar ==
    Pick(Generated, origin, "forced")
    \o (IF Returned /\ forced # None THEN forced ELSE <<>>)

\* the forced texts the last call enqueued before it made its i-th step
EnqueuedBefore(i) ==
    {j \in 2..(i - 1) :
        /\ EntryText(trail[j]) # NoText
        /\ Encode(tokenizer, EntryText(trail[j])) # <<>>}

\* C23: _enqueue_force_text, which replaces the queue, is executed only
\* when the queue is empty: a call that makes a transition with a forced
\* text began with an empty queue and has enqueued no token before; so no
\* token of an enqueued text is lost: the tokens forced so far, followed by
\* the queue, are the encodings of all the forced texts up to the present
\* state, one after the other.
C23_EnqueueOnEmptyQueue ==
    /\ \A i \in 2..Len(trail) :
          EntryText(trail[i]) # NoText =>
              /\ entry_queue = <<>>
              /\ EnqueuedBefore(i) = {}
    /\ pc \in {"call", "sample", "stopped"} =>
          WithoutEos(ForcedSoFar) \o force_queue = EnqueuedUpTo(Ord(state))

\* the newline and opening code fence was enqueued by the call that has
\* just returned, after the whole of the opening action text was forced
C23_Witness ==
    /\ Returned
    /\ tokenizer = "prefixed"
    /\ trail[Len(trail)] = CODE_FENCE_START /\ Len(trail) > 1
    /\ entry_queue = <<>>
    /\ Len(force_queue) = Len(Encode(tokenizer, FENCE_OPEN_TEXT)) - 1
    /\ Len(Pick(Generated, origin, "forced")) =
          Len(Encode(tokenizer, THOUGHT_OPEN_TEXT))
          + Len(Encode(tokenizer, ACTION_OPEN_TEXT))

\* C24: a call that starts with a non-empty force queue leaves the state as
\* it is and returns in its first iteration with the front token forced,
\* before the policy is consulted, whatever the text holds; the state
\* changes only in calls that start with an empty queue.
C24_NoTransitionWhileForcing ==
    [][/\ (pc = "call" /\ pc' # "rejected" /\ force_queue # <<>>) =>
            /\ state' = state
            /\ trail' = <<state>>
            /\ iters' = 1
            /\ forced' = Some(Head(force_queue))
       /\ state' # state => (pc = "call" /\ force_queue = <<>>)]_vars

\* the opening action marker is being forced while the text holds a closing
\* action marker, and the state stays ACTION_OPEN
C24_Witness ==
    /\ Returned
    /\ entry_queue # <<>>
    /\ state = ACTION_OPEN
    /\ forced = Some(SymbolToken("AO"))
    /\ Contains(last_text, "AC")

(***************************************************************************)
(* Claims about the states at the return of a call (Spec).                  *)
(***************************************************************************)
\* the buffer the last call returned leaves the choice to the model: it is
\* not the buffer of a forced token
Unforced == \A t \in Vocab : scores.rows[1] # ForcedRow(t)

\* C26: a fresh context is in START with an empty force queue; after the
\* first call that passed validation the state is never START again; and
\* a call returns an unforced buffer only in THOUGHT_CONTENT,
\* ACTION_CONTENT or CODE_CONTENT with an empty force queue, never in
\* START, ACTION_OPEN, CODE_FENCE_START or DONE.
C26_FreeOnlyInContentStates ==
    /\ state = START /\ force_queue = <<>>
    /\ [](/\ begun # <<>> => state # START
          /\ (Returned /\ Unforced) =>
                /\ state \in {THOUGHT_CONTENT, ACTION_CONTENT, CODE_CONTENT}
                /\ force_queue = <<>>)

\* an unforced return in ACTION_CONTENT, after returns in ACTION_OPEN that
\* each forced a token
C26_Witness ==
    /\ Returned /\ Unforced
    /\ state = ACTION_CONTENT
    /\ force_queue = <<>>
    /\ Cardinality(BegunIn(ACTION_OPEN)) >= 2

(***************************************************************************)
(* Claims about runs to the end (SpecLive).                                 *)
(***************************************************************************)
\* the model itself has chosen token c while the state was s
ModelChose(c, s) ==
    \E i \in 1..Len(origin) :
        origin[i] = s /\ Generated[i] = SymbolToken(c)

\* the last call forced end-of-sequence
EosIsForced ==
    /\ pc \in {"sample", "stopped"}
    /\ state = DONE
    /\ forced = Some(eos_token_id)
    /\ scores.rows[1] = ForcedRow(eos_token_id)

\* C21: with a loop that calls once per step and takes the forced tokens,
\* and a model that in the end closes the thought, the action and, after a
\* non-blank line, the code block, and never writes an opening fence line,
\* the state becomes DONE and end-of-sequence is forced; and end-of-sequence
\* is forced only after the model itself has chosen the closing thought
\* marker, the closing action marker, a non-blank code symbol and the
\* closing fence: the enforcer never forces it on its own.
C21_CoopReachesEos ==
    /\ <>(state = DONE)
    /\ <>EosIsForced
    /\ [](EosIsForced =>
             /\ ModelChose("TC", THOUGHT_CONTENT)
             /\ ModelChose("AC", ACTION_CONTENT)
             /\ ModelChose("X", CODE_CONTENT)
             /\ ModelChose("F3", CODE_CONTENT))

\* end-of-sequence was selected after a run in which the model wrote
\* MaxLive tokens of content of its own and then closed the three blocks
C21_Witness ==
    /\ pc = "stopped"
    /\ state = DONE
    /\ tokenizer = "prefixed"
    /\ FreeCount(origin) > MaxLive + 3
    /\ input_ids[Len(input_ids)] = eos_token_id

(***************************************************************************)
(* Claims about a code block that is closed while empty (SpecCode).         *)
(***************************************************************************)
\* the first bare closing fence line after the first opening fence line has
\* no non-blank line before it
EmptyThenClosed(text) ==
    /\ OpeningFenceLines(text) # {}
    /\ ClosingFencesAfter(text) # {}
    /\ \A a \in LineBegins(text) :
          (/\ a > Least(OpeningFenceLines(text))
           /\ a < Least(ClosingFencesAfter(text))) => ~NonBlankAt(text, a)

\* ... and a line break ends that closing fence line
EmptyThenClosedLine(text) ==
    /\ EmptyThenClosed(text)
    /\ LineEndsAt(text, Least(ClosingFencesAfter(text))) < Len(text)

\* the texts that calls in CODE_CONTENT have been given so far: the text up
\* to a token the model chose in CODE_CONTENT
CodeTextsSeen ==
    {Decode(SubSeq(Generated, 1, k)) :
        k \in {i \in 1..Len(origin) : origin[i] = CODE_CONTENT}}

\* C25 as stated: once the text in CODE_CONTENT holds, after the opening
\* fence line, a bare closing fence line with no non-blank line before it,
\* the state is never DONE afterwards, whatever the model appends.
C25_EmptyBlockNeverDone ==
    (\E text \in CodeTextsSeen : EmptyThenClosed(text)) => state # DONE

\* C25, amended: once the text in CODE_CONTENT holds such a closing fence
\* line and the line break that ends it, the state stays CODE_CONTENT: no
\* call moves it to DONE, and every call returns the buffer unforced with
\* end-of-sequence at -inf, whatever non-blank lines and closing fences
\* follow.
C25_EmptyBlockLineNeverDone ==
    (\E text \in CodeTextsSeen : EmptyThenClosedLine(text)) =>
        /\ state = CODE_CONTENT
        /\ done_calls = 0
        /\ Returned => (/\ forced = None
                        /\ scores.rows[1][eos_token_id] = NegInf)

\* after the empty block was closed the model wrote a non-blank line and
\* another bare closing fence, and the call stayed in CODE_CONTENT
C25_Witness ==
    /\ Returned
    /\ state = CODE_CONTENT
    /\ tokenizer = "unit"
    /\ ChosenIn(CODE_CONTENT) = <<"F3", "NL", "X", "NL", "F3">>
    /\ forced = None

====
